---- MODULE Spec2Model ----
(***************************************************************************)
(* Model of the backup orchestration pipeline of src/backup.go (the        *)
(* BackupManager program, lines 1-764): load -> create dated directories   *)
(* -> per-repository clone/sanitize/size/zip -> retention -> summary.      *)
(* Strings are sequences of one-character strings, so that the string      *)
(* operations of the code (prefix tests, Replace, ReplaceAll, Split,       *)
(* TrimSpace) are computed and not assumed.                                *)
(***************************************************************************)
EXTENDS Integers, Sequences, FiniteSets, TLC

(***************************************************************************)
(* Bounds of the model.                                                    *)
(***************************************************************************)
MaxRuns == 2
MaxOld == 6
MaxFaults == 1
NotifCap == 2
MaxLines == 4

(***************************************************************************)
(* Program constants.                                                      *)
(***************************************************************************)
maxRetries == 3
maxBackups == 5

(***************************************************************************)
(* Go's strings package, on sequences of characters.                       *)
(***************************************************************************)
HasPrefix(s, p) ==
    Len(s) >= Len(p) /\ SubSeq(s, 1, Len(p)) = p

HasSuffix(s, p) ==
    Len(s) >= Len(p) /\ SubSeq(s, Len(s) - Len(p) + 1, Len(s)) = p

\* strings.Index, 1-based; 0 when sub does not occur in s
Index(s, sub) ==
    LET starts == {i \in 1..(Len(s) - Len(sub) + 1) : SubSeq(s, i, i + Len(sub) - 1) = sub}
    IN IF starts = {} THEN 0 ELSE CHOOSE i \in starts : \A j \in starts : i <= j

Contains(s, sub) ==
    Index(s, sub) # 0

\* strings.Replace(s, old, new, 1)
ReplaceFirst(s, old, new) ==
    LET i == Index(s, old)
    IN IF i = 0 THEN s
       ELSE SubSeq(s, 1, i - 1) \o new \o SubSeq(s, i + Len(old), Len(s))

RECURSIVE ReplaceAll(_, _, _)
ReplaceAll(s, old, new) ==
    LET i == Index(s, old)
    IN IF i = 0 THEN s
       ELSE SubSeq(s, 1, i - 1) \o new
            \o ReplaceAll(SubSeq(s, i + Len(old), Len(s)), old, new)

RECURSIVE Split(_, _)
Split(s, sep) ==
    LET i == Index(s, sep)
    IN IF i = 0 THEN <<s>>
       ELSE <<SubSeq(s, 1, i - 1)>> \o Split(SubSeq(s, i + Len(sep), Len(s)), sep)

IsSpace(c) ==
    c \in {" ", "\t", "\n", "\r"}

RECURSIVE TrimLeft(_)
TrimLeft(s) ==
    IF s # <<>> /\ IsSpace(Head(s)) THEN TrimLeft(Tail(s)) ELSE s

RECURSIVE TrimRight(_)
TrimRight(s) ==
    IF s # <<>> /\ IsSpace(s[Len(s)]) THEN TrimRight(SubSeq(s, 1, Len(s) - 1)) ELSE s

TrimSpace(s) ==
    TrimRight(TrimLeft(s))

\* byte order of the characters that occur in directory names
CharOrder ==
    <<"-", ".", "0", "1", "2", "3", "4", "5", "6", "7", "8", "9", "n", "o", "t">>

Ord(c) ==
    CHOOSE i \in 1..Len(CharOrder) : CharOrder[i] = c

\* s < t in Go's string order (bytewise lexicographic)
RECURSIVE StrLess(_, _)
StrLess(s, t) ==
    IF t = <<>> THEN FALSE
    ELSE IF s = <<>> THEN TRUE
    ELSE IF Head(s) = Head(t) THEN StrLess(Tail(s), Tail(t))
    ELSE Ord(Head(s)) < Ord(Head(t))

\* the elements of a finite set of strings in increasing order
RECURSIVE SortedSeq(_)
SortedSeq(S) ==
    IF S = {} THEN <<>>
    ELSE LET m == CHOOSE x \in S : \A y \in S \ {x} : StrLess(x, y)
         IN <<m>> \o SortedSeq(S \ {m})

Range(f) ==
    {f[i] : i \in DOMAIN f}

\* sort.Strings
SortStrings(q) ==
    SortedSeq(Range(q))

(***************************************************************************)
(* String literals of the program.                                         *)
(***************************************************************************)
HTTPS == <<"h", "t", "t", "p", "s", ":", "/", "/">>
GITAT == <<"g", "i", "t", "@">>
GITHUB == <<"g", "i", "t", "h", "u", "b", ".", "c", "o", "m">>
GITLAB == <<"g", "i", "t", "l", "a", "b", ".", "c", "o", "m">>
DOTGIT == <<".", "g", "i", "t">>
NL == <<"\n">>

\* the characters of the class [a-zA-Z0-9._-]
SafeChars ==
    {"a", "b", "c", "d", "e", "f", "g", "h", "i", "j", "k", "l", "m", "n", "o",
     "p", "q", "r", "s", "t", "u", "v", "w", "x", "y", "z",
     "A", "B", "C", "D", "E", "F", "G", "H", "I", "J", "K", "L", "M", "N", "O",
     "P", "Q", "R", "S", "T", "U", "V", "W", "X", "Y", "Z",
     "0", "1", "2", "3", "4", "5", "6", "7", "8", "9", ".", "-", "_"}

\* the secret of BACKUP_TOKEN when it is set
TOKEN == <<"T", "K">>

(***************************************************************************)
(* Pure functions of the program.                                          *)
(***************************************************************************)
\* extractRepoNameFromURL: [err |-> TRUE] or [err |-> FALSE, name |-> ...]
extractRepoNameFromURL(rawurl) ==
    LET t == TrimSpace(rawurl)
        url == IF HasSuffix(t, DOTGIT) THEN SubSeq(t, 1, Len(t) - 4) ELSE t
        parts == Split(url, <<"/">>)
        cparts == Split(url, <<":">>)
        repoPart0 == cparts[2]
        repoPart == IF HasSuffix(repoPart0, DOTGIT)
                    THEN SubSeq(repoPart0, 1, Len(repoPart0) - 4) ELSE repoPart0
        repoParts == Split(repoPart, <<"/">>)
    IN IF HasPrefix(url, HTTPS) /\ Len(parts) >= 5
       THEN [err |-> FALSE, name |-> parts[5]]
       ELSE IF HasPrefix(url, GITAT) /\ Len(cparts) >= 2 /\ Len(repoParts) >= 2
       THEN [err |-> FALSE, name |-> repoParts[2]]
       ELSE [err |-> TRUE, name |-> <<>>]

\* the descriptor put in front of the ones already loaded
AppendRepo_front(acc, name, line) ==
    <<[Name |-> name, URL |-> line]>> \o acc

\* lines 327-330: repositories = append(repositories, RepositoryConfig{...})
AppendRepo(acc, name, line) ==
    Append(acc, [Name |-> name, URL |-> line])

\* the loop of lines 313-331 going on to the next line when a name cannot
\* be extracted
RECURSIVE LoadLines_skip(_, _)
LoadLines_skip(lines, acc) ==
    IF lines = <<>> THEN [err |-> FALSE, repos |-> acc]
    ELSE LET line == TrimSpace(Head(lines))
             r == extractRepoNameFromURL(line)
         IN IF line = <<>> \/ HasPrefix(line, <<"#">>) \/ r.err
            THEN LoadLines_skip(Tail(lines), acc)
            ELSE LoadLines_skip(Tail(lines), AppendRepo(acc, r.name, line))

\* the loop of loadRepositoriesFromFile over the lines still to read
RECURSIVE LoadLines(_, _)
LoadLines(lines, acc) ==
    IF lines = <<>> THEN [err |-> FALSE, repos |-> acc]
    ELSE LET line == TrimSpace(Head(lines))
             r == extractRepoNameFromURL(line)
         IN IF line = <<>> \/ HasPrefix(line, <<"#">>)
            THEN LoadLines(Tail(lines), acc)
            ELSE IF r.err THEN [err |-> TRUE, repos |-> <<>>]
            ELSE LoadLines(Tail(lines), AppendRepo(acc, r.name, line))

\* loadRepositoriesFromFile without the test of lines 333-335
loadRepositoriesFromFile_noEmptyTest(f) ==
    IF ~f.exists THEN [err |-> TRUE, repos |-> <<>>]
    ELSE LoadLines(Split(f.content, NL), <<>>)

\* loadRepositoriesFromFile on the file f = [exists, content]
loadRepositoriesFromFile(f) ==
    IF ~f.exists THEN [err |-> TRUE, repos |-> <<>>]
    ELSE LET r == LoadLines(Split(f.content, NL), <<>>)
         IN IF r.err \/ r.repos = <<>> THEN [err |-> TRUE, repos |-> <<>>] ELSE r

constructAuthenticatedURL(url, token) ==
    IF HasPrefix(url, HTTPS)
    THEN ReplaceFirst(url, HTTPS, HTTPS \o token \o <<"@">>)
    ELSE IF HasPrefix(url, GITAT)
    THEN ReplaceFirst(url, GITAT \o GITHUB \o <<":">>,
                      HTTPS \o token \o <<"@">> \o GITHUB \o <<"/">>)
    ELSE url

\* the new content removeCredentialsFromConfig writes for the content read
removeCredentialsFromConfig(content, token) ==
    ReplaceAll(content, HTTPS \o token \o <<"@">> \o GITHUB, HTTPS \o GITHUB)

\* the config file "git clone --mirror <url>" leaves in the mirror
CloneConfig(url) ==
    <<"u", "r", "l", "=">> \o url \o NL

IsDigit(c) ==
    c \in {"0", "1", "2", "3", "4", "5", "6", "7", "8", "9"}

isDateDir(name) ==
    /\ Len(name) = 10
    /\ \A i \in 1..10 : IF i \in {5, 8} THEN name[i] = "-" ELSE IsDigit(name[i])

Digit(n) ==
    <<"0", "1", "2", "3", "4", "5", "6", "7", "8", "9">>[n + 1]

TwoDigits(n) ==
    <<Digit(n \div 10), Digit(n % 10)>>

\* time.Now().Format("2006-01-02") on day number d (day 1 is 2025-01-01,
\* months of 28 days)
DateName(d) ==
    <<"2", "0", "2", "5", "-">> \o TwoDigits(1 + ((d - 1) \div 28))
        \o <<"-">> \o TwoDigits(1 + ((d - 1) % 28))

(***************************************************************************)
(* Inputs: the lines and files the runs are given.                         *)
(***************************************************************************)
URL_A == HTTPS \o GITHUB \o <<"/", "o", "/", "a">> \o DOTGIT
URL_B == HTTPS \o GITLAB \o <<"/", "o", "/", "b">>
URL_C == GITAT \o GITHUB \o <<":", "o", "/", "c">> \o DOTGIT
URL_BAD == HTTPS \o GITHUB \o <<"/">>
COMMENT == <<"#", " ", "x">>

RECURSIVE JoinLines(_)
JoinLines(ls) ==
    IF ls = <<>> THEN <<>>
    ELSE IF Len(ls) = 1 THEN Head(ls)
    ELSE Head(ls) \o NL \o JoinLines(Tail(ls))

LineLists ==
    { <<<<" ">> \o URL_A \o <<" ">>, COMMENT, <<>>, URL_B>>,
      <<URL_C, <<>>>>,
      <<COMMENT, <<>>>>,
      <<URL_A, URL_BAD>>,
      <<>> }

Files ==
    {[exists |-> TRUE, content |-> JoinLines(ls)] : ls \in LineLists}
        \cup {[exists |-> FALSE, content |-> <<>>]}

HTTP == <<"h", "t", "t", "p", ":", "/", "/">>
URL_NONAME == HTTPS \o GITHUB \o <<"/", "o", "/">>

\* the lines the files given to the loader alone are made of
LineChoices ==
    {<<" ">> \o URL_A \o <<" ">>, URL_C, URL_BAD, URL_NONAME, COMMENT, <<>>}

\* the sequences of at most n lines
RECURSIVE LineSeqs(_)
LineSeqs(n) ==
    IF n = 0 THEN {<<>>}
    ELSE LET S == LineSeqs(n - 1)
         IN S \cup {Append(q, l) : q \in {x \in S : Len(x) = n - 1}, l \in LineChoices}

ParseFiles ==
    {[exists |-> TRUE, content |-> JoinLines(ls)] : ls \in LineSeqs(MaxLines)}
        \cup Files

\* the arguments of the direct calls of extractRepoNameFromURL
URLInputs ==
    {scheme \o host \o sep \o path :
        scheme \in {HTTPS, GITAT, HTTP, <<>>},
        host \in {GITHUB, <<>>},
        sep \in {<<"/">>, <<":">>},
        path \in {<<>>, <<"o">>, <<"o", "/", "r">>, <<"o", "/", "r">> \o DOTGIT,
                  <<"o", "/">>, <<"o", "/", "r", "/", "x">>,
                  <<"o", "/", "r">> \o DOTGIT \o <<"/", "x">>}}
        \cup {<<>>}

\* the number of lines of a file that are neither blank nor comments
RECURSIVE CountRepoLines(_)
CountRepoLines(lines) ==
    IF lines = <<>> THEN 0
    ELSE LET line == TrimSpace(Head(lines))
         IN (IF line = <<>> \/ HasPrefix(line, <<"#">>) THEN 0 ELSE 1)
            + CountRepoLines(Tail(lines))

(***************************************************************************)
(* State.                                                                  *)
(***************************************************************************)
VARIABLES
    backupToken,    \* BACKUP_TOKEN, <<>> when unset
    webhookSet,     \* WEBHOOK_URL is not empty
    repoFile,       \* repositories.txt: [exists, content]
    date,           \* day number of bm.backupDate
    runs,           \* number of the current run of the program
    sameDate,       \* this run has the date of the run before it
    pc,             \* position of the program
    repositories,   \* the loaded []RepositoryConfig
    idx,            \* index of the loop in progress
    attempt,        \* attempt of the retry loop
    lastError,      \* lastError of the retry loop, "" for nil
    result,         \* the BackupResult under construction
    summary,        \* the BackupSummary
    fs,             \* backups/<name>/ : entry name -> content
    summaryFiles,   \* backups/summary/ : date -> [md, json]
    exitCode,       \* exit status, -1 while running
    notifCount,     \* webhook posts attempted in this run, counted up to NotifCap
    notifFailed,    \* a webhook post of this run got a transport error or a non-2xx
    extract,        \* a direct call of extractRepoNameFromURL: argument and result
    slept,          \* the seconds of each time.Sleep of the retry loop in progress
    panicked,       \* main (the one with the deferred recover) has panicked
    earlyFailure,   \* the local earlyFailure of the main of lines 2237-2346
    notified,       \* the statuses sendNotification has posted, in order
    results,        \* the local results of runBackup
    faultLog,       \* I/O failures of the environment: <<run, operation, ...>>
    pruned          \* history: name -> what enforceRetention found and removed

vars ==
    <<backupToken, webhookSet, repoFile, date, runs, sameDate, pc, repositories,
      idx, attempt, lastError, result, summary, fs, summaryFiles, exitCode,
      notifCount, notifFailed, extract, slept, panicked, earlyFailure, notified,
      results, faultLog, pruned>>

\* every name the loader can produce from the files
Names ==
    UNION {{r.Name : r \in Range(loadRepositoriesFromFile(f).repos)} : f \in Files}

Today0 == MaxOld + 4

\* finite functions as directories
Put(f, k, v) ==
    [x \in (DOMAIN f) \cup {k} |-> IF x = k THEN v ELSE f[x]]

Del(f, ks) ==
    [x \in (DOMAIN f) \ ks |-> f[x]]

EmptyDir(r) ==
    [dir |-> TRUE, mirror |-> "none", config |-> <<>>, zip |-> "none",
     zipcfg |-> <<>>, madeBy |-> r]

\* a dated directory an earlier, successful run has left
OldDir ==
    [dir |-> TRUE, mirror |-> "none", config |-> <<>>, zip |-> "ok",
     zipcfg |-> CloneConfig(HTTPS \o GITHUB), madeBy |-> 0]

OldDirs(k) ==
    [dn \in {DateName(j) : j \in (Today0 - k)..(Today0 - 1)} |-> OldDir]

\* the tree a successful run and then maxBackups - 1 runs whose clone has
\* failed, on successive dates, have left: the failed runs made their dated
\* directory (line 385) and put nothing in it
AfterFailedRuns ==
    [dn \in {DateName(j) : j \in (Today0 - maxBackups)..(Today0 - 1)} |->
        IF dn = DateName(Today0 - maxBackups) THEN OldDir ELSE EmptyDir(0)]

\* what is not a backup in the directory of a repository: a directory whose
\* name is no date, one whose name is a date cut short, and a regular file
\* whose name is a date older than every backup
OtherEntries ==
    [e \in {<<"n", "o", "t">>, SubSeq(DateName(1), 1, 9), DateName(1)} |->
        [EmptyDir(0) EXCEPT !.dir = (e # DateName(1))]]

WithOthers(root) ==
    [e \in DOMAIN root \cup DOMAIN OtherEntries |->
        IF e \in DOMAIN root THEN root[e] ELSE OtherEntries[e]]

\* no direct call of extractRepoNameFromURL
NoExtract ==
    [url |-> <<>>, done |-> FALSE, err |-> FALSE, name |-> <<>>]

NoResult ==
    [Name |-> <<>>, Success |-> FALSE, Error |-> "", Size |-> "", ZipSize |-> ""]

EmptySummary ==
    [Results |-> <<>>, SuccessCount |-> 0, FailureCount |-> 0]

CloneErrors ==
    <<"git clone failed: attempt 1", "git clone failed: attempt 2",
      "git clone failed: attempt 3">>

Init ==
    /\ backupToken \in {<<>>, TOKEN}
    /\ webhookSet \in BOOLEAN
    /\ repoFile \in Files
    /\ date = Today0
    /\ runs = 1
    /\ sameDate = FALSE
    /\ pc = "main"
    /\ repositories = <<>>
    /\ idx = 0
    /\ attempt = 0
    /\ lastError = ""
    /\ result = NoResult
    /\ summary = EmptySummary
    /\ \/ \E k \in {0} \cup ((MaxOld - 2)..MaxOld) : fs = [n \in Names |-> OldDirs(k)]
       \/ fs = [n \in Names |-> WithOthers(OldDirs(MaxOld))]
       \/ fs = [n \in Names |-> AfterFailedRuns]
    /\ summaryFiles = <<>>
    /\ exitCode = -1
    /\ notifCount = 0
    /\ notifFailed = FALSE
    /\ slept = <<>>
    /\ panicked = FALSE
    /\ earlyFailure = FALSE
    /\ notified = <<>>
    /\ results = <<>>
    /\ extract = NoExtract
    /\ faultLog = {}
    /\ pruned = <<>>

\* bm.Log called n times: each call posts to the webhook when one is set
Min(a, b) ==
    IF a <= b THEN a ELSE b

\* Log without the test of line 113 and Send without the test of line 230
Log_unguarded(n) ==
    /\ notifCount' = Min(notifCount + n, NotifCap)
    /\ \E failed \in BOOLEAN :
         /\ failed => n > 0
         /\ notifFailed' = (notifFailed \/ failed)

\* lines 113-224 and Send (229-244): a post when the URL is not empty; the
\* post may fail (transport error, or a response that is not 2xx), and Send
\* returns nothing in either case
Log(n) ==
    /\ notifCount' = Min(notifCount + (IF webhookSet THEN n ELSE 0), NotifCap)
    /\ \E failed \in BOOLEAN :
         /\ failed => (webhookSet /\ n > 0)
         /\ notifFailed' = (notifFailed \/ failed)

\* the I/O operation op on the files of repository n, failed in this run
Fault(op, n) ==
    <<runs, op, n>>

\* the environment may fail the I/O operations in F
MayFail(F) ==
    /\ Cardinality(faultLog \cup F) <= MaxFaults
    /\ faultLog' = faultLog \cup F

B2N(b) ==
    IF b THEN 1 ELSE 0

(***************************************************************************)
(* main and RunBackup up to the load of the repository list.               *)
(***************************************************************************)
Exit(code) ==
    /\ exitCode' = code
    /\ pc' = "exited"

\* main without its test of BACKUP_TOKEN
TokenMissing_never(t) ==
    FALSE

\* backupToken == "" (line 249)
TokenMissing(t) ==
    t = <<>>

Main ==
    /\ pc = "main"
    /\ IF TokenMissing(backupToken)
       THEN /\ Exit(1)
            /\ UNCHANGED <<repositories, idx, notifCount, notifFailed>>
       ELSE LET r == loadRepositoriesFromFile(repoFile)
            IN IF r.err
               THEN /\ Log(2)
                    /\ Exit(1)
                    /\ UNCHANGED <<repositories, idx>>
               ELSE /\ Log(2)
                    /\ repositories' = r.repos
                    /\ idx' = 1
                    /\ pc' = "createDirs"
                    /\ UNCHANGED exitCode
    /\ UNCHANGED <<slept, earlyFailure, panicked, notified, results, extract, backupToken, webhookSet, repoFile, date, runs, sameDate, attempt,
                   lastError, result, summary, fs, summaryFiles, faultLog, pruned>>

(***************************************************************************)
(* createBackupDirectories, one repository per step.                       *)
(***************************************************************************)
\* createBackupDirectories without its os.RemoveAll
RemoveExisting_keep(root, dn) ==
    root

\* os.RemoveAll(backupPath) on the directory of a repository
RemoveExisting(root, dn) ==
    Del(root, {dn})

\* os.MkdirAll(backupPath): nothing to do when the path is a directory
MkdirAll(root, dn, r) ==
    IF dn \in DOMAIN root THEN root ELSE Put(root, dn, EmptyDir(r))

CreateBackupDirectory ==
    /\ pc = "createDirs"
    /\ LET name == repositories[idx].Name
           dn == DateName(date)
       IN \E rmFail, mkFail \in BOOLEAN :
            /\ rmFail => dn \in DOMAIN fs[name]
            /\ mkFail => ~rmFail
            /\ MayFail((IF rmFail THEN {Fault("remove", name)} ELSE {})
                       \cup (IF mkFail THEN {Fault("mkdir", name)} ELSE {}))
            /\ LET afterRm == IF rmFail THEN fs[name] ELSE RemoveExisting(fs[name], dn)
                   afterMk == IF mkFail THEN afterRm ELSE MkdirAll(afterRm, dn, runs)
               IN fs' = [fs EXCEPT ![name] = afterMk]
            /\ Log(B2N(rmFail) + 1)
            /\ IF mkFail
               THEN /\ Exit(1)
                    /\ UNCHANGED idx
               ELSE /\ UNCHANGED exitCode
                    /\ IF idx < Len(repositories)
                       THEN idx' = idx + 1 /\ pc' = "createDirs"
                       ELSE idx' = 1 /\ pc' = "perform"
    /\ UNCHANGED <<slept, earlyFailure, panicked, notified, results, extract, backupToken, webhookSet, repoFile, date, runs, sameDate,
                   repositories, attempt, lastError, result, summary, summaryFiles,
                   pruned>>

(***************************************************************************)
(* performBackups / backupRepository.                                      *)
(***************************************************************************)
StartBackup ==
    /\ pc = "perform"
    /\ result' = [NoResult EXCEPT !.Name = repositories[idx].Name]
    /\ attempt' = 1
    /\ lastError' = ""
    /\ slept' = <<>>
    /\ Log(1)
    /\ pc' = "clone"
    /\ UNCHANGED <<earlyFailure, panicked, notified, results, extract, backupToken, webhookSet, repoFile, date, runs, sameDate,
                   repositories, idx, summary, fs, summaryFiles, exitCode, faultLog,
                   pruned>>

\* lines 464-466 without the test of result.Success
ResultError_always(success, lastErr) ==
    lastErr

\* lines 464-466: the error of the result once the retry loop is over
ResultError(success, lastErr) ==
    IF ~success THEN lastErr ELSE ""

\* a retry loop that sleeps one second whatever the attempt
Backoff_constant(att) ==
    1

\* line 454: time.Sleep(time.Duration(attempt) * time.Second), in seconds
Backoff(att) ==
    att

\* a retry loop without its bound
MoreAttempts_always(att) ==
    TRUE

\* lines 446 and 449: another attempt follows a failed one while
\* attempt < maxRetries
MoreAttempts(att) ==
    att < maxRetries

\* backupRepository without its call of removeCredentialsFromConfig
StepAfterClone_skip(success) ==
    IF success THEN "size" ELSE "record"

\* lines 464-468: after the retry loop backupRepository returns when the
\* clone has failed, else its next step is removeCredentialsFromConfig
StepAfterClone(success) ==
    IF success THEN "sanitize" ELSE "record"

\* one attempt of the retry loop: "git clone --mirror" succeeds, fails
\* leaving nothing, or is stopped leaving part of the mirror; it refuses a
\* destination that exists and is not empty
CloneAttempt ==
    /\ pc = "clone"
    /\ LET repo == repositories[idx]
           dn == DateName(date)
           dir == fs[repo.Name][dn]
           repoURL == constructAuthenticatedURL(repo.URL, backupToken)
       IN \E out \in {"ok", "fail", "partial"} :
            /\ out \in {"ok", "partial"} => dir.mirror = "none"
            /\ IF out = "ok"
               THEN /\ fs' = [fs EXCEPT ![repo.Name][dn] =
                                [dir EXCEPT !.mirror = "full",
                                            !.config = CloneConfig(repoURL)]]
                    /\ result' = [result EXCEPT !.Success = TRUE,
                                                !.Error = ResultError(TRUE, lastError)]
                    /\ pc' = StepAfterClone(TRUE)
                    /\ UNCHANGED <<attempt, lastError, slept, notifCount, notifFailed>>
               ELSE /\ fs' = IF out = "partial"
                             THEN [fs EXCEPT ![repo.Name][dn] =
                                     [dir EXCEPT !.mirror = "partial",
                                                 !.config = CloneConfig(repoURL)]]
                             ELSE fs
                    /\ lastError' = CloneErrors[attempt]
                    /\ IF MoreAttempts(attempt)
                       THEN /\ Log(1)
                            /\ slept' = Append(slept, Backoff(attempt))
                            /\ attempt' = attempt + 1
                            /\ pc' = "clone"
                            /\ UNCHANGED result
                       ELSE /\ result' = [result EXCEPT
                                            !.Error = ResultError(FALSE, lastError')]
                            /\ pc' = StepAfterClone(FALSE)
                            /\ UNCHANGED <<attempt, slept, notifCount, notifFailed>>
    /\ UNCHANGED <<earlyFailure, panicked, notified, results, extract, backupToken, webhookSet, repoFile, date, runs, sameDate,
                   repositories, idx, summary, summaryFiles, exitCode, faultLog,
                   pruned>>

\* lines 467-471: removeCredentialsFromConfig on the mirror; an error reading
\* or writing the file is logged and the backup goes on
Sanitize ==
    /\ pc = "sanitize"
    /\ LET name == repositories[idx].Name
           dn == DateName(date)
           dir == fs[name][dn]
       IN \E ioFail \in BOOLEAN :
            /\ MayFail(IF ioFail THEN {Fault("config", name)} ELSE {})
            /\ fs' = IF ioFail THEN fs
                     ELSE [fs EXCEPT ![name][dn].config =
                             removeCredentialsFromConfig(dir.config, backupToken)]
            /\ Log(B2N(ioFail))
    /\ pc' = "size"
    /\ UNCHANGED <<slept, earlyFailure, panicked, notified, results, extract, backupToken, webhookSet, repoFile, date, runs, sameDate,
                   repositories, idx, attempt, lastError, result, summary,
                   summaryFiles, exitCode, pruned>>

\* lines 473-476: getDirectorySize, the size is kept only when du succeeds
SizeOriginal ==
    /\ pc = "size"
    /\ \E duFail \in BOOLEAN :
         /\ MayFail(IF duFail THEN {Fault("du", repositories[idx].Name)} ELSE {})
         /\ result' = [result EXCEPT !.Size = IF duFail THEN "" ELSE "4.0K"]
    /\ pc' = "zip"
    /\ UNCHANGED <<slept, earlyFailure, panicked, notified, results, extract, backupToken, webhookSet, repoFile, date, runs, sameDate,
                   repositories, idx, attempt, lastError, summary, fs,
                   summaryFiles, exitCode, notifCount, notifFailed, pruned>>

\* zipDirectory: the archive holds the files of the mirror as they are now
ZipOK(dir) ==
    [dir EXCEPT !.zip = "ok", !.zipcfg = dir.config]

\* zipDirectory stopped by an error: the file it created stays, incomplete
ZipFailed(dir) ==
    [dir EXCEPT !.zip = "partial", !.zipcfg = <<>>]

\* backupRepository without the os.RemoveAll of line 484
RemoveMirror_keep(dir) ==
    dir

\* line 484: os.RemoveAll(backupPath)
RemoveMirror(dir) ==
    [dir EXCEPT !.mirror = "none", !.config = <<>>]

\* lines 478-488
Archive ==
    /\ pc = "zip"
    /\ LET name == repositories[idx].Name
           dn == DateName(date)
           dir == fs[name][dn]
       IN \E zipFail, statFail \in BOOLEAN :
            /\ statFail => ~zipFail
            /\ MayFail((IF zipFail THEN {Fault("zip", name)} ELSE {})
                       \cup (IF statFail THEN {Fault("stat", name)} ELSE {}))
            /\ IF zipFail
               THEN /\ fs' = [fs EXCEPT ![name][dn] = ZipFailed(dir)]
                    /\ Log(1)
                    /\ UNCHANGED result
               ELSE /\ fs' = [fs EXCEPT ![name][dn] = RemoveMirror(ZipOK(dir))]
                    /\ result' = [result EXCEPT
                                    !.ZipSize = IF statFail THEN "" ELSE "1.0 kB"]
                    /\ UNCHANGED <<notifCount, notifFailed>>
    /\ pc' = "record"
    /\ UNCHANGED <<slept, earlyFailure, panicked, notified, results, extract, backupToken, webhookSet, repoFile, date, runs, sameDate,
                   repositories, idx, attempt, lastError, summary, summaryFiles,
                   exitCode, pruned>>

\* performBackups without the else branch of lines 414-420
AddResult_noFailure(s, r) ==
    [Results |-> Append(s.Results, r),
     SuccessCount |-> s.SuccessCount + B2N(r.Success),
     FailureCount |-> s.FailureCount]

\* performBackups putting each result in front of the earlier ones
AddResult_front(s, r) ==
    [Results |-> <<r>> \o s.Results,
     SuccessCount |-> s.SuccessCount + B2N(r.Success),
     FailureCount |-> s.FailureCount + B2N(~r.Success)]

\* lines 405-420: the result is appended and counted; the locals of
\* backupRepository are gone once it has returned
AddResult(s, r) ==
    [Results |-> Append(s.Results, r),
     SuccessCount |-> s.SuccessCount + B2N(r.Success),
     FailureCount |-> s.FailureCount + B2N(~r.Success)]

\* RunBackup returning early when a repository has failed
AfterPerformBackups_skip(s) ==
    IF s.FailureCount > 0 THEN "final" ELSE "retention"

\* lines 283-287 of RunBackup: what follows performBackups
AfterPerformBackups(s) ==
    "retention"

\* performBackups going round on the same repository
NextRepository_same(i) ==
    i

\* line 401: for _, repo := range repositories
NextRepository(i) ==
    i + 1

Record ==
    /\ pc = "record"
    /\ summary' = AddResult(summary, result)
    /\ Log(1)
    /\ IF idx < Len(repositories)
       THEN idx' = NextRepository(idx) /\ pc' = "perform"
       ELSE idx' = 1 /\ pc' = AfterPerformBackups(summary')
    /\ result' = NoResult
    /\ attempt' = 0
    /\ lastError' = ""
    /\ slept' = <<>>
    /\ UNCHANGED <<earlyFailure, panicked, notified, results, extract, backupToken, webhookSet, repoFile, date, runs, sameDate,
                   repositories, fs, summaryFiles, exitCode, faultLog, pruned>>

(***************************************************************************)
(* enforceRetention, one repository per step.                              *)
(***************************************************************************)
\* os.ReadDir: the entries sorted by file name
ReadDir(root) ==
    SortedSeq(DOMAIN root)

\* enforceRetention taking every entry for a backup
BackupDirs_anyEntry(root, entries) ==
    entries

\* lines 629-634: entry.IsDir() && bm.isDateDir(entry.Name())
BackupDirs(root, entries) ==
    SelectSeq(entries, LAMBDA e : root[e].dir /\ isDateDir(e))

\* a slip of line 642: the slice taken from the wrong end
ToDelete_newest(backupDirs) ==
    SubSeq(backupDirs, maxBackups + 1, Len(backupDirs))

\* line 642, on the sorted names
ToDelete(backupDirs) ==
    SubSeq(backupDirs, 1, Len(backupDirs) - maxBackups)

\* lines 636-643
RetentionVictims(root) ==
    LET backupDirs == BackupDirs(root, ReadDir(root))
    IN IF Len(backupDirs) <= maxBackups THEN {}
       ELSE Range(ToDelete(SortStrings(backupDirs)))

\* the directories of a directory of a repository that carry a date
DatedDirs(root) ==
    {e \in DOMAIN root : root[e].dir /\ isDateDir(e)}

\* the other entries of the directory of a repository, with what they hold
OtherThanDated(root) ==
    [e \in DOMAIN root \ DatedDirs(root) |-> root[e]]

\* enforceRetention returning at the first error
RetentionNext_return(failed, i, n) ==
    IF failed \/ i >= n THEN [idx |-> 0, pc |-> "summary"]
    ELSE [idx |-> i + 1, pc |-> "retention"]

\* the loop of lines 621-653: "continue" after an error of os.ReadDir, a
\* warning after an error of os.RemoveAll, then the next repository
RetentionNext(failed, i, n) ==
    IF i < n THEN [idx |-> i + 1, pc |-> "retention"]
    ELSE [idx |-> 0, pc |-> "summary"]

EnforceRetention ==
    /\ pc = "retention"
    /\ LET name == repositories[idx].Name
           victims == RetentionVictims(fs[name])
       IN \E rdFail \in BOOLEAN, F \in SUBSET victims :
            /\ rdFail => F = {}
            /\ MayFail((IF rdFail THEN {Fault("readdir", name)} ELSE {})
                       \cup {Fault("rmold", <<name, v>>) : v \in F})
            /\ IF rdFail
               THEN /\ Log(1)
                    /\ UNCHANGED <<fs, pruned>>
               ELSE /\ fs' = [fs EXCEPT ![name] = Del(fs[name], victims \ F)]
                    /\ pruned' = Put(pruned, name,
                                     [before |-> DatedDirs(fs[name]),
                                      others |-> OtherThanDated(fs[name]),
                                      removed |-> victims \ F])
                    /\ Log(Cardinality(victims))
            /\ LET next == RetentionNext(rdFail \/ F # {}, idx, Len(repositories))
               IN idx' = next.idx /\ pc' = next.pc
    /\ UNCHANGED <<slept, earlyFailure, panicked, notified, results, extract, backupToken, webhookSet, repoFile, date, runs, sameDate,
                   repositories, attempt, lastError, result, summary,
                   summaryFiles, exitCode>>

(***************************************************************************)
(* createBackupSummary and the end of RunBackup.                           *)
(***************************************************************************)
\* createMarkdownSummary: the header counts and one marked line per result
MarkdownOf(s) ==
    [rate |-> <<s.SuccessCount, Len(s.Results)>>,
     lines |-> [i \in 1..Len(s.Results) |->
                  <<s.Results[i].Success, s.Results[i].Name,
                    IF s.Results[i].Success THEN s.Results[i].Size
                    ELSE s.Results[i].Error>>]]

\* createJSONSummary: the fields with a json tag (omitempty drops "")
JSONOf(s) ==
    [results |-> [i \in 1..Len(s.Results) |->
                    [name |-> s.Results[i].Name, success |-> s.Results[i].Success,
                     error |-> s.Results[i].Error, size |-> s.Results[i].Size,
                     zip_size |-> s.Results[i].ZipSize]],
     success_count |-> s.SuccessCount,
     failure_count |-> s.FailureCount]

NoFile == [absent |-> TRUE]

\* lines 546-569: out is the first step that fails, or "ok"
WriteSummaries(files, dn, s, out) ==
    LET old == IF dn \in DOMAIN files THEN files[dn]
               ELSE [md |-> NoFile, json |-> NoFile]
    IN IF out = "mkdir" THEN files
       ELSE IF out = "md" THEN Put(files, dn, old)
       ELSE IF out = "json" THEN Put(files, dn, [old EXCEPT !.md = MarkdownOf(s)])
       ELSE Put(files, dn, [md |-> MarkdownOf(s), json |-> JSONOf(s)])

CreateBackupSummary ==
    /\ pc = "summary"
    /\ \E out \in {"ok", "mkdir", "md", "json"} :
         /\ out = "mkdir" => DateName(date) \notin DOMAIN summaryFiles
         /\ MayFail(IF out = "ok" THEN {} ELSE {Fault("summary", out)})
         /\ summaryFiles' = WriteSummaries(summaryFiles, DateName(date), summary, out)
    /\ Log(1)
    /\ pc' = "final"
    /\ UNCHANGED <<slept, earlyFailure, panicked, notified, results, extract, backupToken, webhookSet, repoFile, date, runs, sameDate,
                   repositories, idx, attempt, lastError, result, summary, fs,
                   exitCode, pruned>>

\* RunBackup giving main an error when a post to the webhook has failed
RunBackupResult_escalate(sendFailed) ==
    IF sendFailed THEN 1 ELSE 0

\* line 301: RunBackup returns nil, whatever Send has met; main then
\* returns and the exit status is 0
RunBackupResult(sendFailed) ==
    0

\* lines 294-301 and the return of main
Finish ==
    /\ pc = "final"
    /\ Log(1)
    /\ Exit(RunBackupResult(notifFailed'))
    /\ UNCHANGED <<slept, earlyFailure, panicked, notified, results, extract, backupToken, webhookSet, repoFile, date, runs, sameDate,
                   repositories, idx, attempt, lastError, result, summary, fs,
                   summaryFiles, faultLog, pruned>>

\* the scheduler starts the program again, the same day or the next
NewRun ==
    /\ pc = "exited"
    /\ runs < MaxRuns
    /\ runs' = runs + 1
    /\ \E d \in {date, date + 1} :
         /\ date' = d
         /\ sameDate' = (d = date)
    /\ pc' = "main"
    /\ repositories' = <<>>
    /\ idx' = 0
    /\ attempt' = 0
    /\ lastError' = ""
    /\ result' = NoResult
    /\ summary' = EmptySummary
    /\ exitCode' = -1
    /\ notifCount' = 0
    /\ notifFailed' = FALSE
    /\ slept' = <<>>
    /\ pruned' = <<>>
    /\ UNCHANGED <<earlyFailure, panicked, notified, results, extract, backupToken, webhookSet, repoFile, fs, summaryFiles, faultLog>>

Next ==
    \/ Main
    \/ CreateBackupDirectory
    \/ StartBackup
    \/ CloneAttempt
    \/ Sanitize
    \/ SizeOriginal
    \/ Archive
    \/ Record
    \/ EnforceRetention
    \/ CreateBackupSummary
    \/ Finish

\* one run of the program on any of the inputs
Spec ==
    Init /\ [][Next]_vars

\* successive runs over the same backups/ tree, with the token set and a
\* list that loads
InitRuns ==
    /\ Init
    /\ backupToken = TOKEN
    /\ ~webhookSet
    /\ ~loadRepositoriesFromFile(repoFile).err
    /\ Len(loadRepositoriesFromFile(repoFile).repos) = 1

\* the loader alone: main up to the load of a list of at most MaxLines
\* lines, or one direct call of extractRepoNameFromURL
InitParse ==
    /\ backupToken = TOKEN
    /\ webhookSet = FALSE
    /\ date = Today0
    /\ runs = 1
    /\ sameDate = FALSE
    /\ repositories = <<>>
    /\ idx = 0
    /\ attempt = 0
    /\ lastError = ""
    /\ result = NoResult
    /\ summary = EmptySummary
    /\ fs = <<>>
    /\ summaryFiles = <<>>
    /\ exitCode = -1
    /\ notifCount = 0
    /\ notifFailed = FALSE
    /\ slept = <<>>
    /\ panicked = FALSE
    /\ earlyFailure = FALSE
    /\ notified = <<>>
    /\ results = <<>>
    /\ faultLog = {}
    /\ pruned = <<>>
    /\ \/ /\ pc = "main"
          /\ repoFile \in ParseFiles
          /\ extract = NoExtract
       \/ /\ pc = "extract"
          /\ repoFile = [exists |-> FALSE, content |-> <<>>]
          /\ \E u \in URLInputs : extract = [NoExtract EXCEPT !.url = u]

\* a call of extractRepoNameFromURL on its own
ExtractRepoName ==
    /\ pc = "extract"
    /\ LET r == extractRepoNameFromURL(extract.url)
       IN extract' = [url |-> extract.url, done |-> TRUE, err |-> r.err,
                      name |-> r.name]
    /\ pc' = "extracted"
    /\ UNCHANGED <<backupToken, webhookSet, repoFile, date, runs, sameDate,
                   repositories, idx, attempt, lastError, result, summary, fs,
                   summaryFiles, exitCode, notifCount, notifFailed, faultLog,
                   pruned, slept, earlyFailure, panicked, notified, results>>

NextParse ==
    \/ Main
    \/ ExtractRepoName

SpecParse ==
    InitParse /\ [][NextParse]_vars

NextRuns ==
    \/ Next
    \/ NewRun

SpecRuns ==
    InitRuns /\ [][NextRuns]_vars

(***************************************************************************)
(* The main with the deferred notification (lines 807-1110 and 1287-1410): *)
(* validateEnvironment, loadConfig, runBackup, then the exit; the deferred *)
(* function runs when main returns or panics, not when it calls os.Exit.   *)
(***************************************************************************)
\* one or more characters of the class [a-zA-Z0-9._-]
AllSafe(s) ==
    s # <<>> /\ \A i \in 1..Len(s) : s[i] \in SafeChars

\* isValidRepoURL: the line matches
\* ^https://github\.com/[a-zA-Z0-9._-]+/[a-zA-Z0-9._-]+(/.*)?$
isValidRepoURL(url) ==
    LET pre == HTTPS \o GITHUB \o <<"/">>
        rest == SubSeq(url, Len(pre) + 1, Len(url))
        i == Index(rest, <<"/">>)
        owner == SubSeq(rest, 1, i - 1)
        after == SubSeq(rest, i + 1, Len(rest))
        j == Index(after, <<"/">>)
        repo == IF j = 0 THEN after ELSE SubSeq(after, 1, j - 1)
    IN HasPrefix(url, pre) /\ i > 0 /\ AllSafe(owner) /\ AllSafe(repo)

\* the class [a-zA-Z0-9]
AlnumChars ==
    SafeChars \ {".", "-", "_"}

\* [a-zA-Z0-9]([a-zA-Z0-9._-]*[a-zA-Z0-9])?
SafeSegment(s) ==
    AllSafe(s) /\ s[1] \in AlnumChars /\ s[Len(s)] \in AlnumChars

\* isValidRepoURL of lines 2414-2419: the line matches
\* ^https://github\.com/<segment>/<segment>$ with the segment above
isValidRepoURLStrict(url) ==
    LET pre == HTTPS \o GITHUB \o <<"/">>
        rest == SubSeq(url, Len(pre) + 1, Len(url))
        i == Index(rest, <<"/">>)
        owner == SubSeq(rest, 1, i - 1)
        repo == SubSeq(rest, i + 1, Len(rest))
    IN HasPrefix(url, pre) /\ i > 0 /\ SafeSegment(owner) /\ SafeSegment(repo)

\* the trimmed lines of the file
LinesOf(f) ==
    LET lines == Split(f.content, NL)
    IN [i \in 1..Len(lines) |-> TrimSpace(lines[i])]

\* loadConfig (lines 936-961 and 2387-2412) with the validation valid, a
\* function from lines to BOOLEAN: the lines that are not valid are skipped
LoadValid(f, valid) ==
    IF ~f.exists THEN [err |-> TRUE, repos |-> <<>>]
    ELSE LET trimmed == LinesOf(f)
             Kept(l) == l # <<>> /\ ~HasPrefix(l, <<"#">>) /\ valid[l]
             repos == SelectSeq(trimmed, Kept)
         IN IF repos = <<>> THEN [err |-> TRUE, repos |-> <<>>]
            ELSE [err |-> FALSE, repos |-> repos]

\* loadConfig of lines 936-961
loadConfig(f) ==
    LoadValid(f, [l \in Range(LinesOf(f)) |-> isValidRepoURL(l)])

\* loadConfig of lines 2387-2412
loadConfigStrict(f) ==
    LoadValid(f, [l \in Range(LinesOf(f)) |-> isValidRepoURLStrict(l)])

TrimSuffix(s, suffix) ==
    IF HasSuffix(s, suffix) THEN SubSeq(s, 1, Len(s) - Len(suffix)) ELSE s

\* extractRepoName (lines 1023-1040): "owner/repo", "" when there are not
\* two parts
extractRepoName(repoURL) ==
    IF repoURL = <<>> THEN <<>>
    ELSE LET u == TrimSuffix(TrimSuffix(repoURL, <<"/">>), DOTGIT)
             parts == Split(u, <<"/">>)
         IN IF Len(parts) < 2 THEN <<>>
            ELSE parts[Len(parts) - 1] \o <<"/">> \o parts[Len(parts)]

\* sanitizePathComponent (lines 2497-2502): the characters outside
\* [a-zA-Z0-9._-] are removed
sanitizePathComponent(component) ==
    SelectSeq(component, LAMBDA c : c \in SafeChars)

\* extractRepoName of lines 2474-2495: owner and repo sanitized
extractRepoNameSafe(repoURL) ==
    IF repoURL = <<>> THEN <<>>
    ELSE LET u == TrimSuffix(TrimSuffix(repoURL, <<"/">>), DOTGIT)
             parts == Split(u, <<"/">>)
         IN IF Len(parts) < 2 THEN <<>>
            ELSE sanitizePathComponent(parts[Len(parts) - 1]) \o <<"/">>
                    \o sanitizePathComponent(parts[Len(parts)])

\* isValidRepoURL of lines 1719-1723: a test of the prefix only
isValidRepoURLPrefix(url) ==
    \/ HasPrefix(TrimSpace(url), HTTPS \o GITHUB \o <<"/">>)
    \/ HasPrefix(TrimSpace(url), GITAT \o GITHUB \o <<":">>)

\* loadConfig of lines 1682-1717
loadConfigPrefix(f) ==
    LoadValid(f, [l \in Range(LinesOf(f)) |-> isValidRepoURLPrefix(l)])

\* extractRepoName of lines 1768-1775: the last part, "" when the URL has
\* no "/"
extractRepoNameLast(url) ==
    LET parts == Split(TrimSuffix(url, DOTGIT), <<"/">>)
    IN IF Len(parts) < 2 THEN <<>> ELSE parts[Len(parts)]

\* constructAuthenticatedURL (lines 1108-1116)
constructAuthenticatedURLEnv(repoURL, token) ==
    IF token = <<>> THEN repoURL
    ELSE ReplaceFirst(repoURL, HTTPS, HTTPS \o token \o <<"@">>)

URL_R == HTTPS \o GITHUB \o <<"/", "o", "/", "r">>

LegacyFiles ==
    Files \cup {[exists |-> TRUE, content |-> JoinLines(<<URL_A, URL_R>>)],
                [exists |-> TRUE, content |-> URL_R \o <<"/", "x">>],
                [exists |-> TRUE, content |-> URL_BAD]}

LegacyNames ==
    UNION {{extractRepoName(u) : u \in Range(loadConfig(f).repos)}
              \cup {extractRepoNameSafe(u) : u \in Range(loadConfigStrict(f).repos)}
              \cup {extractRepoNameLast(u) : u \in Range(loadConfigPrefix(f).repos)} :
           f \in LegacyFiles}

\* the Summary runBackup returns for its results (lines 1003-1020)
Summarize(rs) ==
    [Total |-> Len(rs),
     Success |-> Cardinality({i \in 1..Len(rs) : rs[i].Success}),
     Failed |-> Cardinality({i \in 1..Len(rs) : ~rs[i].Success}),
     Results |-> rs]

\* the name of the archive of a dated directory: backupDir + ".zip"
ZipName(dn) ==
    dn \o <<".", "z", "i", "p">>

InitLegacy ==
    /\ backupToken \in {<<>>, TOKEN}
    /\ webhookSet \in BOOLEAN
    /\ repoFile \in LegacyFiles
    /\ date = Today0
    /\ runs = 1
    /\ sameDate = FALSE
    /\ pc \in {"L_validate", "S_validate", "M_validate"}
    /\ repositories = <<>>
    /\ idx = 0
    /\ attempt = 0
    /\ lastError = ""
    /\ result = NoResult
    /\ summary = Summarize(<<>>)
    /\ fs = [n \in LegacyNames |-> <<>>]
    /\ summaryFiles = <<>>
    /\ exitCode = -1
    /\ notifCount = 0
    /\ notifFailed = FALSE
    /\ slept = <<>>
    /\ panicked = FALSE
    /\ earlyFailure = FALSE
    /\ notified = <<>>
    /\ results = <<>>
    /\ extract = NoExtract
    /\ faultLog = {}
    /\ pruned = <<>>

\* sendNotification (lines 1287-1410): nothing without a webhook URL, else
\* one post, whose failure is only logged
sendNotification(status) ==
    /\ notified' = IF webhookSet THEN Append(notified, status) ELSE notified
    /\ notifCount' = Min(notifCount + B2N(webhookSet), NotifCap)
    /\ \E failed \in BOOLEAN :
         /\ failed => webhookSet
         /\ notifFailed' = (notifFailed \/ failed)

\* lines 850-858: validateEnvironment, log.Fatal on an error; setupGit only
\* warns
ValidateEnvironment ==
    /\ pc = "L_validate"
    /\ \E noGit \in BOOLEAN :
         /\ noGit => (backupToken # <<>> /\ repoFile.exists)
         /\ MayFail(IF noGit THEN {Fault("lookpath", <<>>)} ELSE {})
         /\ IF backupToken = <<>> \/ ~repoFile.exists \/ noGit
            THEN Exit(1)
            ELSE pc' = "L_load" /\ UNCHANGED exitCode
    /\ UNCHANGED <<backupToken, webhookSet, repoFile, date, runs, sameDate,
                   repositories, idx, attempt, lastError, result, summary, fs,
                   summaryFiles, notifCount, notifFailed, extract, slept, earlyFailure, panicked,
                   notified, results, pruned>>

\* lines 860-869: loadConfig and the test of len(config.Repos)
LoadConfig ==
    /\ pc = "L_load"
    /\ LET r == loadConfig(repoFile)
       IN IF r.err \/ r.repos = <<>>
          THEN /\ Exit(1)
               /\ UNCHANGED <<repositories, idx>>
          ELSE /\ repositories' = r.repos
               /\ idx' = 1
               /\ pc' = "L_backup"
               /\ UNCHANGED exitCode
    /\ UNCHANGED <<backupToken, webhookSet, repoFile, date, runs, sameDate, attempt,
                   lastError, result, summary, fs, summaryFiles, notifCount,
                   notifFailed, extract, slept, earlyFailure, panicked, notified, results,
                   faultLog, pruned>>

\* the Result of runBackup and backupRepo
LegacyResult(repo, success, error) ==
    [Repo |-> repo, Success |-> success, Error |-> error]

\* one iteration of the loop of runBackup (lines 975-1000) with backupRepo
\* (1042-1106): the directory is made, the clone goes into it, the archive
\* is written next to it and the directory is removed; out is the first
\* step that fails, or "ok"; repoName is what extractRepoName gives for the
\* repository
RunBackupAt(here, after, repoName) ==
    /\ pc = here
    /\ LET repo == repositories[idx]
           dn == DateName(date)
           authURL == constructAuthenticatedURLEnv(repo, backupToken)
       IN IF repoName = <<>>
          THEN /\ results' = Append(results,
                       LegacyResult(repo, FALSE, "Failed to extract repository name"))
               /\ UNCHANGED <<fs, faultLog>>
          ELSE \E out \in {"mkdir", "clone", "partial", "zip", "ok"} :
                 LET made == MkdirAll(fs[repoName], dn, runs)
                     cloned == [made[dn] EXCEPT !.mirror = "full",
                                                !.config = CloneConfig(authURL)]
                 IN /\ out \in {"partial", "zip", "ok"} => made[dn].mirror = "none"
                    /\ MayFail(IF out \in {"mkdir", "zip"}
                               THEN {Fault(out, repoName)} ELSE {})
                    /\ fs' = [fs EXCEPT ![repoName] =
                                 CASE out = "mkdir" -> fs[repoName]
                                   [] out = "clone" -> made
                                   [] out = "partial" ->
                                        Put(made, dn, [cloned EXCEPT !.mirror = "partial"])
                                   [] out = "zip" ->
                                        Put(Del(made, {dn}), ZipName(dn),
                                            [ZipFailed(cloned) EXCEPT
                                                !.mirror = "none", !.config = <<>>,
                                                !.dir = FALSE])
                                   [] out = "ok" ->
                                        Put(Del(made, {dn}), ZipName(dn),
                                            [RemoveMirror(ZipOK(cloned)) EXCEPT
                                                !.dir = FALSE])]
                    /\ results' = Append(results,
                          CASE out = "mkdir" ->
                                 LegacyResult(repo, FALSE, "Failed to create backup directory")
                            [] out \in {"clone", "partial"} ->
                                 LegacyResult(repo, FALSE, "Clone failed")
                            [] out = "zip" ->
                                 LegacyResult(repo, FALSE, "ZIP creation failed")
                            [] out = "ok" -> LegacyResult(repo, TRUE, ""))
    /\ IF idx < Len(repositories)
       THEN /\ idx' = idx + 1
            /\ pc' = here
            /\ UNCHANGED summary
       ELSE /\ idx' = 0
            /\ pc' = after
            /\ summary' = Summarize(results')
    /\ UNCHANGED <<backupToken, webhookSet, repoFile, date, runs, sameDate,
                   repositories, attempt, lastError, result, summaryFiles, exitCode,
                   notifCount, notifFailed, extract, slept, earlyFailure, panicked, notified,
                   pruned>>

\* runBackup of lines 970-1021
RunBackupStep ==
    /\ pc = "L_backup"
    /\ RunBackupAt("L_backup", "L_save", extractRepoName(repositories[idx]))

\* runBackup of lines 2421-2472
RunBackupStepSlog ==
    /\ pc = "S_backup"
    /\ RunBackupAt("S_backup", "S_save", extractRepoNameSafe(repositories[idx]))

\* lines 874-894: saveBackupResults writes backup-results.json (an error is
\* only a warning, as is one of commitAndPush), then os.Exit(1) when a
\* repository has failed, else main returns
AfterRunBackup ==
    /\ pc = "L_save"
    /\ \E saveFail \in BOOLEAN :
         /\ MayFail(IF saveFail THEN {Fault("save", <<>>)} ELSE {})
         /\ summaryFiles' = IF saveFail THEN summaryFiles
                            ELSE Put(summaryFiles, "backup-results.json",
                                     [md |-> NoFile, json |-> summary])
    /\ IF summary.Failed > 0
       THEN Exit(1)
       ELSE pc' = "L_deferred" /\ UNCHANGED exitCode
    /\ UNCHANGED <<backupToken, webhookSet, repoFile, date, runs, sameDate,
                   repositories, idx, attempt, lastError, result, summary, fs,
                   notifCount, notifFailed, extract, slept, earlyFailure, panicked, notified,
                   results, pruned>>

\* a panic somewhere in main or in what it calls: the deferred function runs
Panic ==
    /\ pc \in {"L_validate", "L_load", "L_backup", "L_save",
              "S_validate", "S_load", "S_backup", "S_save"}
    /\ panicked' = TRUE
    /\ pc' = IF pc \in {"L_validate", "L_load", "L_backup", "L_save"}
             THEN "L_deferred" ELSE "S_deferred"
    /\ UNCHANGED <<earlyFailure, backupToken, webhookSet, repoFile, date, runs, sameDate,
                   repositories, idx, attempt, lastError, result, summary, fs,
                   summaryFiles, exitCode, notifCount, notifFailed, extract, slept,
                   notified, results, faultLog, pruned>>

\* the status the deferred function notifies (lines 814-848)
DeferredStatus(recovered, s) ==
    IF recovered THEN "panic"
    ELSE IF s.Total = 0 THEN "failure"
    ELSE IF s.Failed = s.Total THEN "failure"
    ELSE IF s.Failed > 0 THEN "failure"
    ELSE "success"

\* the deferred function of main: recover() stops the panic, so main returns
\* normally after it and the process ends with status 0
Deferred ==
    /\ pc = "L_deferred"
    /\ sendNotification(DeferredStatus(panicked, summary))
    /\ Exit(0)
    /\ UNCHANGED <<backupToken, webhookSet, repoFile, date, runs, sameDate,
                   repositories, idx, attempt, lastError, result, summary, fs,
                   summaryFiles, extract, slept, earlyFailure, panicked, results, faultLog,
                   pruned>>

(***************************************************************************)
(* The main of lines 2237-2346: an early failure sets earlyFailure and     *)
(* returns, and there is no os.Exit, so the deferred function always runs. *)
(***************************************************************************)
\* lines 2294-2305: validateEnvironment; setupGit only warns
ValidateEnvironmentSlog ==
    /\ pc = "S_validate"
    /\ \E noGit \in BOOLEAN :
         /\ noGit => (backupToken # <<>> /\ repoFile.exists)
         /\ MayFail(IF noGit THEN {Fault("lookpath", <<>>)} ELSE {})
         /\ IF backupToken = <<>> \/ ~repoFile.exists \/ noGit
            THEN earlyFailure' = TRUE /\ pc' = "S_deferred"
            ELSE earlyFailure' = earlyFailure /\ pc' = "S_load"
    /\ UNCHANGED <<backupToken, webhookSet, repoFile, date, runs, sameDate,
                   repositories, idx, attempt, lastError, result, summary, fs,
                   summaryFiles, exitCode, notifCount, notifFailed, extract, slept,
                   panicked, notified, results, pruned>>

\* lines 2307-2322: loadConfig and the test of len(config.Repos)
LoadConfigSlog ==
    /\ pc = "S_load"
    /\ LET r == loadConfigStrict(repoFile)
       IN IF r.err \/ r.repos = <<>>
          THEN /\ earlyFailure' = TRUE
               /\ pc' = "S_deferred"
               /\ UNCHANGED <<repositories, idx>>
          ELSE /\ repositories' = r.repos
               /\ idx' = 1
               /\ pc' = "S_backup"
               /\ UNCHANGED earlyFailure
    /\ UNCHANGED <<backupToken, webhookSet, repoFile, date, runs, sameDate, attempt,
                   lastError, result, summary, fs, summaryFiles, exitCode,
                   notifCount, notifFailed, extract, slept, panicked, notified,
                   results, faultLog, pruned>>

\* lines 2327-2345: saveBackupResults writes backup-results.json (an error
\* is only a warning, as is one of commitAndPush), then main returns
AfterRunBackupSlog ==
    /\ pc = "S_save"
    /\ \E saveFail \in BOOLEAN :
         /\ MayFail(IF saveFail THEN {Fault("save", <<>>)} ELSE {})
         /\ summaryFiles' = IF saveFail THEN summaryFiles
                            ELSE Put(summaryFiles, "backup-results.json",
                                     [md |-> NoFile, json |-> summary])
    /\ pc' = "S_deferred"
    /\ UNCHANGED <<backupToken, webhookSet, repoFile, date, runs, sameDate,
                   repositories, idx, attempt, lastError, result, summary, fs,
                   exitCode, notifCount, notifFailed, extract, slept, panicked,
                   earlyFailure, notified, results, pruned>>

\* the status the deferred function of lines 2255-2292 notifies
DeferredStatusSlog(recovered, early, s) ==
    IF recovered THEN "panic"
    ELSE IF early THEN "failure"
    ELSE IF s.Total = 0 THEN "failure"
    ELSE IF s.Failed = s.Total THEN "failure"
    ELSE IF s.Failed > 0 THEN "failure"
    ELSE "success"

\* the deferred function of lines 2255-2292; main returns after it and the
\* process ends with status 0
DeferredSlog ==
    /\ pc = "S_deferred"
    /\ sendNotification(DeferredStatusSlog(panicked, earlyFailure, summary))
    /\ Exit(0)
    /\ UNCHANGED <<backupToken, webhookSet, repoFile, date, runs, sameDate,
                   repositories, idx, attempt, lastError, result, summary, fs,
                   summaryFiles, extract, slept, panicked, earlyFailure, results,
                   faultLog, pruned>>

(***************************************************************************)
(* The main of lines 1582-1636: log.Fatal on an early failure, then        *)
(* runBackup with enforceRetention, and sendNotification called by main.   *)
(***************************************************************************)
\* lines 1586-1589: validateEnvironment asks for BACKUP_TOKEN,
\* GITHUB_REPOSITORY and git
ValidateEnvironmentMax ==
    /\ pc = "M_validate"
    /\ \E noRepoEnv, noGit \in BOOLEAN :
         /\ noRepoEnv => backupToken # <<>>
         /\ noGit => (backupToken # <<>> /\ ~noRepoEnv)
         /\ MayFail(IF noGit THEN {Fault("lookpath", <<>>)} ELSE {})
         /\ IF backupToken = <<>> \/ noRepoEnv \/ noGit
            THEN Exit(1)
            ELSE pc' = "M_load" /\ UNCHANGED exitCode
    /\ UNCHANGED <<backupToken, webhookSet, repoFile, date, runs, sameDate,
                   repositories, idx, attempt, lastError, result, summary, fs,
                   summaryFiles, notifCount, notifFailed, extract, slept, panicked,
                   earlyFailure, notified, results, pruned>>

\* the Summary of lines 1727-1731, before the first repository
NewSummary ==
    [Results |-> <<>>, Success |-> 0, Failed |-> 0]

\* lines 1596-1605: loadConfig and the test of len(config.Repos)
LoadConfigMax ==
    /\ pc = "M_load"
    /\ LET r == loadConfigPrefix(repoFile)
       IN IF r.err \/ r.repos = <<>>
          THEN /\ Exit(1)
               /\ UNCHANGED <<repositories, idx, summary>>
          ELSE /\ repositories' = r.repos
               /\ idx' = 1
               /\ summary' = NewSummary
               /\ pc' = "M_backup"
               /\ UNCHANGED exitCode
    /\ UNCHANGED <<backupToken, webhookSet, repoFile, date, runs, sameDate, attempt,
                   lastError, result, fs, summaryFiles, notifCount, notifFailed,
                   extract, slept, panicked, earlyFailure, notified, results,
                   faultLog, pruned>>

\* lines 1749-1756: the result is appended and counted
Count(s, r) ==
    [Results |-> Append(s.Results, r),
     Success |-> s.Success + B2N(r.Success),
     Failed |-> s.Failed + B2N(~r.Success)]

\* one iteration of the loop of runBackup (lines 1735-1757) with backupRepo
\* (1777-1828): a repository without a name, or whose directory cannot be
\* made, is passed over without a result; the clone goes into
\* <name>.git of the dated directory, the credentials are removed, and the
\* result is a success also when the archive fails
RunBackupStepMax ==
    /\ pc = "M_backup"
    /\ LET repo == repositories[idx]
           repoName == extractRepoNameLast(repo)
           dn == DateName(date)
           authURL == ReplaceFirst(repo, HTTPS, HTTPS \o backupToken \o <<"@">>)
       IN IF repoName = <<>>
          THEN UNCHANGED <<fs, faultLog, summary>>
          ELSE \E out \in {"mkdir", "clone", "partial", "config", "zip", "ok"} :
                 LET made == MkdirAll(fs[repoName], dn, runs)
                     cloned == [made[dn] EXCEPT !.mirror = "full",
                                                !.config = CloneConfig(authURL)]
                     clean == IF out = "config" THEN cloned
                              ELSE [cloned EXCEPT !.config =
                                      removeCredentialsFromConfig(cloned.config,
                                                                  backupToken)]
                 IN /\ out # "mkdir" => made[dn].mirror = "none"
                    /\ MayFail(IF out \in {"mkdir", "config", "zip"}
                               THEN {Fault(out, repoName)} ELSE {})
                    /\ fs' = [fs EXCEPT ![repoName] =
                                 CASE out = "mkdir" -> fs[repoName]
                                   [] out = "clone" -> made
                                   [] out = "partial" ->
                                        Put(made, dn, [cloned EXCEPT !.mirror = "partial"])
                                   [] out = "zip" -> Put(made, dn, ZipFailed(clean))
                                   [] OTHER ->
                                        Put(made, dn, RemoveMirror(ZipOK(clean)))]
                    /\ summary' =
                          CASE out = "mkdir" -> summary
                            [] out \in {"clone", "partial"} ->
                                 Count(summary, LegacyResult(repoName, FALSE, "clone failed"))
                            [] OTHER ->
                                 Count(summary, LegacyResult(repoName, TRUE, ""))
    /\ IF idx < Len(repositories)
       THEN idx' = idx + 1 /\ pc' = "M_backup"
       ELSE idx' = 1 /\ pc' = "M_retention"
    /\ UNCHANGED <<backupToken, webhookSet, repoFile, date, runs, sameDate,
                   repositories, attempt, lastError, result, summaryFiles, exitCode,
                   notifCount, notifFailed, extract, slept, panicked, earlyFailure,
                   notified, results, pruned>>

\* one iteration of enforceRetention (lines 1935-1969), the last call of
\* runBackup: errors of os.ReadDir and os.RemoveAll are passed over
EnforceRetentionMax ==
    /\ pc = "M_retention"
    /\ LET repoName == extractRepoNameLast(repositories[idx])
       IN IF repoName = <<>>
          THEN UNCHANGED <<fs, faultLog>>
          ELSE LET victims == RetentionVictims(fs[repoName])
               IN \E rdFail \in BOOLEAN, F \in SUBSET victims :
                    /\ rdFail => F = {}
                    /\ MayFail((IF rdFail THEN {Fault("readdir", repoName)} ELSE {})
                               \cup {Fault("rmold", <<repoName, v>>) : v \in F})
                    /\ fs' = IF rdFail THEN fs
                             ELSE [fs EXCEPT ![repoName] = Del(fs[repoName], victims \ F)]
    /\ IF idx < Len(repositories)
       THEN idx' = idx + 1 /\ pc' = "M_retention"
       ELSE idx' = 0 /\ pc' = "M_save"
    /\ UNCHANGED <<backupToken, webhookSet, repoFile, date, runs, sameDate,
                   repositories, attempt, lastError, result, summary, summaryFiles,
                   exitCode, notifCount, notifFailed, extract, slept, panicked,
                   earlyFailure, notified, results, pruned>>

\* the status of sendNotification (lines 2040-2053)
StatusMax(s) ==
    IF s.Failed > 0 THEN "Failure" ELSE "Success"

\* lines 1610-1635: saveBackupResults and commitAndPush (an error is only a
\* warning), sendNotification when there is a webhook URL, and os.Exit(1)
\* when a repository has failed
AfterRunBackupMax ==
    /\ pc = "M_save"
    /\ \E saveFail \in BOOLEAN :
         /\ MayFail(IF saveFail THEN {Fault("save", <<>>)} ELSE {})
         /\ summaryFiles' = IF saveFail THEN summaryFiles
                            ELSE Put(summaryFiles, "backup-results.json",
                                     [md |-> NoFile, json |-> summary])
    /\ sendNotification(StatusMax(summary))
    /\ Exit(IF summary.Failed > 0 THEN 1 ELSE 0)
    /\ UNCHANGED <<backupToken, webhookSet, repoFile, date, runs, sameDate,
                   repositories, idx, attempt, lastError, result, summary, fs,
                   extract, slept, panicked, earlyFailure, results, pruned>>

NextLegacy ==
    \/ ValidateEnvironment
    \/ LoadConfig
    \/ RunBackupStep
    \/ AfterRunBackup
    \/ Panic
    \/ Deferred
    \/ ValidateEnvironmentSlog
    \/ LoadConfigSlog
    \/ RunBackupStepSlog
    \/ AfterRunBackupSlog
    \/ DeferredSlog
    \/ ValidateEnvironmentMax
    \/ LoadConfigMax
    \/ RunBackupStepMax
    \/ EnforceRetentionMax
    \/ AfterRunBackupMax

SpecLegacy ==
    InitLegacy /\ [][NextLegacy]_vars

TypeOK ==
    /\ pc \in {"main", "createDirs", "perform", "clone", "sanitize", "size", "zip",
               "record", "retention", "summary", "final", "exited", "extract",
               "extracted", "L_validate", "L_load", "L_backup", "L_save",
               "L_deferred", "S_validate", "S_load", "S_backup", "S_save",
               "S_deferred", "M_validate", "M_load", "M_backup", "M_retention",
               "M_save"}
    /\ notifFailed \in BOOLEAN
    /\ panicked \in BOOLEAN
    /\ earlyFailure \in BOOLEAN
    /\ Len(slept) < maxRetries
    /\ extract.done \in BOOLEAN
    /\ exitCode \in {-1, 0, 1}
    /\ attempt \in 0..maxRetries

(***************************************************************************)
(* Properties.                                                             *)
(***************************************************************************)
Running ==
    pc \in {"sanitize", "size", "zip", "record"}

CurName ==
    repositories[idx].Name

CurDir ==
    fs[CurName][DateName(date)]

RepoLines ==
    CountRepoLines(Split(repoFile.content, NL))

AllSucceeded ==
    /\ repositories # <<>>
    /\ Len(summary.Results) = Len(repositories)
    /\ \A i \in 1..Len(summary.Results) : summary.Results[i].Success

\* C1: the process exits with status 0 if every repository succeeded, and
\* with a non-zero status if one or more repositories failed or if the
\* pre-flight validation (token, repository list) failed.
C1_ExitStatus ==
    pc = "exited" => (exitCode = 0 <=> AllSucceeded)

\* C2: once the sanitization step of a cloned repository has run (and the
\* file could be read and written), the config file of the mirror does not
\* contain the token, and no archive made from a mirror contains it, for
\* every source URL the loader accepts.
C2_NoTokenAfterSanitize ==
    /\ (pc \in {"size", "zip"} /\ Fault("config", CurName) \notin faultLog)
          => ~Contains(CurDir.config, backupToken)
    /\ (pc = "record" /\ result.Success /\ CurDir.zip = "ok"
          /\ Fault("config", CurName) \notin faultLog)
          => ~Contains(CurDir.zipcfg, backupToken)

\* the k smallest names of S are exactly R
IsOldest(R, S, k) ==
    /\ R \subseteq S
    /\ Cardinality(R) = k
    /\ \A r \in R : \A q \in S \ R : StrLess(r, q)

\* C3: for a repository with count dated directories, enforceRetention
\* (maximum 5) removes exactly max(0, count - 5) of them, the removed ones
\* are the lexicographically smallest, and the 5 newest remain (7 dated
\* directories leave the 5 most recent), when no removal is failed by the
\* file system.
C3_RetentionRemovesOldest ==
    \A n \in DOMAIN pruned :
        (\A f \in faultLog : ~(f[1] = runs /\ f[2] = "rmold")) =>
            LET before == pruned[n].before
                count == Cardinality(before)
                excess == IF count > maxBackups THEN count - maxBackups ELSE 0
            IN /\ IsOldest(pruned[n].removed, before, excess)
               /\ DatedDirs(fs[n]) = before \ pruned[n].removed
               /\ count >= maxBackups => Cardinality(DatedDirs(fs[n])) = maxBackups
               /\ count = maxBackups + 2 => Cardinality(pruned[n].removed) = 2

C3_Witness ==
    \E n \in DOMAIN pruned :
        /\ faultLog = {}
        /\ Cardinality(pruned[n].before) = 7
        /\ Cardinality(pruned[n].removed) = 2
        /\ Cardinality(DatedDirs(fs[n])) = 5
        /\ DateName(date) \in DOMAIN fs[n]

\* the repositories whose dated directory createBackupDirectories has made
\* and whose clone has not started
Prepared(i) ==
    \/ pc = "createDirs" /\ i < idx
    \/ pc = "perform" /\ i >= idx

\* C4: a second run on the same date leaves exactly one dated directory
\* backups/<name>/<date> for the repository: createBackupDirectories deletes
\* the directory of the earlier run and recreates it empty before the clone
\* (when the removal is not failed by the file system), and at the end of
\* the run the directory is the one this run made.
C4_SameDateOverwrite ==
    sameDate =>
        \A i \in 1..Len(repositories) :
            LET n == repositories[i].Name
                dn == DateName(date)
            IN Fault("remove", n) \notin faultLog =>
                 /\ Prepared(i) => /\ dn \in DOMAIN fs[n]
                                   /\ fs[n][dn] = EmptyDir(runs)
                 /\ (pc = "exited" /\ exitCode = 0) =>
                        /\ Cardinality({e \in DOMAIN fs[n] : e = dn}) = 1
                        /\ fs[n][dn].madeBy = runs

C4_Witness ==
    /\ sameDate
    /\ runs = 2
    /\ pc = "exited"
    /\ exitCode = 0
    /\ faultLog = {}
    /\ \E i \in 1..Len(repositories) :
         /\ summary.Results[i].Success
         /\ fs[repositories[i].Name][DateName(date)].zip = "ok"
         /\ fs[repositories[i].Name][DateName(date)].madeBy = 2

C6_OneOutcomePerLine ==
    (pc = "exited" /\ backupToken # <<>> /\ ~loadRepositoriesFromFile(repoFile).err)
        => Len(summary.Results) = RepoLines

CountSuccess(rs) ==
    Cardinality({i \in 1..Len(rs) : rs[i].Success})

\* C7: in the run report succeededCount + failedCount equals the number of
\* outcomes, after every iteration of the per-repository loop and in the
\* final report (also as persisted).
C7_CountsAddUp ==
    /\ summary.SuccessCount + summary.FailureCount = Len(summary.Results)
    /\ summary.SuccessCount = CountSuccess(summary.Results)
    /\ \A dn \in DOMAIN summaryFiles :
          summaryFiles[dn].json # NoFile =>
              summaryFiles[dn].json.success_count + summaryFiles[dn].json.failure_count
                  = Len(summaryFiles[dn].json.results)

C7_Witness ==
    /\ pc = "exited"
    /\ Len(summary.Results) = 2
    /\ summary.SuccessCount = 1
    /\ summary.FailureCount = 1
    /\ DateName(date) \in DOMAIN summaryFiles
    /\ summaryFiles[DateName(date)].json # NoFile

\* C8: a clone that fails on attempts 1 and 2 and succeeds on attempt 3
\* gives an outcome with succeeded = true and no error recorded; no
\* successful outcome carries the error of an earlier attempt.
C8_RetrySuccessHasNoError ==
    /\ (Running /\ attempt = maxRetries /\ result.Success) => result.Error = ""
    /\ \A i \in 1..Len(summary.Results) :
          summary.Results[i].Success => summary.Results[i].Error = ""

C8_Witness ==
    /\ pc = "record"
    /\ attempt = 3
    /\ lastError = CloneErrors[2]
    /\ result.Success
    /\ result.Error = ""

SummaryFault ==
    \E f \in faultLog : f[1] = runs /\ f[2] = "summary"

C10_ExactlyOneNotification ==
    (pc = "exited" /\ webhookSet) => notifCount = 1

\* the exit status main gives for the token, the list and the file system
\* of the run; the webhook is not among them
ExitWithoutWebhook ==
    IF \/ backupToken = <<>>
       \/ loadRepositoriesFromFile(repoFile).err
       \/ \E f \in faultLog : f[1] = runs /\ f[2] = "mkdir"
    THEN 1 ELSE 0

\* C11: when no webhook URL is configured no post is made at any point of
\* the run, and the run exits with the status that the token, the list and
\* the file system determine, which is the status of the same run with a
\* webhook configured.
C11_NoWebhookNoCalls ==
    /\ ~webhookSet => (notifCount = 0 /\ ~notifFailed)
    /\ pc = "exited" => exitCode = ExitWithoutWebhook

C11_Witness ==
    /\ ~webhookSet
    /\ pc = "exited"
    /\ exitCode = 0
    /\ Len(summary.Results) = 2
    /\ notifCount = 0

\* the clone of the dated directory succeeded: the mirror is whole, or an
\* archive was started from it
Cloned(dir) ==
    dir.mirror = "full" \/ dir.zip # "none"

IsRepoLine(l) ==
    l # <<>> /\ ~HasPrefix(l, <<"#">>)

\* the trimmed lines of the list file that are neither blank nor comments
KeptLines ==
    LET lines == Split(repoFile.content, NL)
    IN SelectSeq([i \in 1..Len(lines) |-> TrimSpace(lines[i])], IsRepoLine)

\* main has read the list file
Loaded ==
    backupToken # <<>> /\ pc \in {"createDirs", "exited"}

C14_OneDescriptorPerLine ==
    (backupToken # <<>> /\ pc = "createDirs") =>
        /\ Len(repositories) = Len(KeptLines)
        /\ \A i \in 1..Len(KeptLines) :
              repositories[i] =
                  [Name |-> extractRepoNameFromURL(KeptLines[i]).name,
                   URL |-> KeptLines[i]]

C14_Witness ==
    /\ pc = "createDirs"
    /\ repoFile.content = JoinLines(<<<<" ">> \o URL_A \o <<" ">>, COMMENT, <<>>, URL_C>>)
    /\ repositories = <<[Name |-> <<"a">>, URL |-> URL_A], [Name |-> <<"c">>, URL |-> URL_C]>>

\* C15: the load fails when the list file is missing, is empty, or holds
\* only comments and blank lines; the program never goes on with an empty
\* list of descriptors.
C15_EmptyListIsError ==
    /\ (Loaded /\ (~repoFile.exists \/ KeptLines = <<>>))
          => (pc = "exited" /\ exitCode = 1)
    /\ (backupToken # <<>> /\ pc = "createDirs") => repositories # <<>>

C15_Witness ==
    /\ pc = "exited"
    /\ exitCode = 1
    /\ repoFile.exists
    /\ Contains(repoFile.content, COMMENT)
    /\ Contains(repoFile.content, NL)
    /\ KeptLines = <<>>

StripGit(s) ==
    IF HasSuffix(s, DOTGIT) THEN SubSeq(s, 1, Len(s) - 4) ELSE s

\* the name C16 states for a URL: the repo segment of scheme://host/owner/repo
\* or of git@host:owner/repo, an error for anything else
StatedName(u) ==
    LET rest == SubSeq(u, Len(HTTPS) + 1, Len(u))
        segs == Split(rest, <<"/">>)
        srest == SubSeq(u, Len(GITAT) + 1, Len(u))
        c == Index(srest, <<":">>)
        host == SubSeq(srest, 1, c - 1)
        ssegs == Split(SubSeq(srest, c + 1, Len(srest)), <<"/">>)
    IN IF /\ HasPrefix(u, HTTPS)
          /\ Len(segs) >= 3
          /\ segs[1] # <<>> /\ segs[2] # <<>> /\ StripGit(segs[3]) # <<>>
       THEN [err |-> FALSE, name |-> StripGit(segs[3])]
       ELSE IF /\ HasPrefix(u, GITAT)
               /\ c > 1
               /\ Len(ssegs) >= 2
               /\ ssegs[1] # <<>> /\ StripGit(ssegs[2]) # <<>>
       THEN [err |-> FALSE, name |-> StripGit(ssegs[2])]
       ELSE [err |-> TRUE, name |-> <<>>]

\* C16: extractRepoNameFromURL returns the repo segment, without a trailing
\* .git, of an https:// URL that has host, owner and repo segments and of a
\* git@host:owner/repo URL, and an error for every other input (the empty
\* string, no recognised scheme, a URL without a repo segment).
C16_ExtractRepoName ==
    extract.done =>
        [err |-> extract.err, name |-> extract.name] = StatedName(extract.url)

\* C17: every descriptor the loader returns has a name that is not empty and
\* is made only of alphanumerics, '.', '-' and '_'.
C17_SafeNames ==
    (backupToken # <<>> /\ pc = "createDirs") =>
        \A i \in 1..Len(repositories) :
            /\ repositories[i].Name # <<>>
            /\ \A j \in 1..Len(repositories[i].Name) :
                  repositories[i].Name[j] \in SafeChars

\* the plain https form of a source URL
PlainURL(url) ==
    IF HasPrefix(url, GITAT)
    THEN ReplaceFirst(url, GITAT \o GITHUB \o <<":">>, HTTPS \o GITHUB \o <<"/">>)
    ELSE url

\* C18: credential removal is the inverse of credential injection: once
\* removeCredentialsFromConfig has run on the config that holds the URL
\* built by constructAuthenticatedURL, the config holds the plain https URL
\* without the token and is otherwise byte for byte what it was.
C18_RemovalInvertsInjection ==
    (pc \in {"size", "zip"} /\ Fault("config", CurName) \notin faultLog)
        => CurDir.config = CloneConfig(PlainURL(repositories[idx].URL))

\* C19: when the archiving of a cloned repository fails the run goes on, the
\* outcome of that repository is failed and carries the error, and the
\* uncompressed mirror is removed.
C19_ArchiveFailureMarksFailed ==
    /\ (pc = "record" /\ Fault("zip", CurName) \in faultLog)
          => (~result.Success /\ result.Error # "" /\ CurDir.mirror = "none")
    /\ (pc = "exited" /\ \E f \in faultLog : f[1] = runs /\ f[2] = "zip")
          => Len(summary.Results) = Len(repositories)

\* C20: every retry of a clone starts clean: when an attempt has failed, the
\* next attempt finds the destination path absent or empty, also when the
\* failed attempt had written part of a mirror.
C20_RetryStartsClean ==
    (pc = "clone" /\ attempt > 1) => CurDir.mirror = "none"

\* C21: when the clone of a repository has failed on all attempts, the
\* destination backups/<name>/<date>/<name>.git does not hold a partial
\* mirror once the outcome of the repository is recorded as failed.
C21_NoPartialMirrorAfterFailure ==
    /\ (pc = "record" /\ ~result.Success) => CurDir.mirror = "none"
    /\ pc \in {"retention", "summary", "final", "exited"} =>
          \A i \in 1..Len(summary.Results) :
              LET n == summary.Results[i].Name
                  dn == DateName(date)
              IN (~summary.Results[i].Success /\ dn \in DOMAIN fs[n])
                     => fs[n][dn].mirror = "none"

\* the waits of 1, 2, ..., k seconds
Waits(k) ==
    [i \in 1..k |-> i]

C23_PanicCaughtAndNonZeroExit ==
    (pc = "exited" /\ panicked) =>
        /\ webhookSet => notified = <<"panic">>
        /\ exitCode # 0

\* the run meets a ConfigurationError: no token, or a repository list that
\* is missing, empty or malformed
ConfigurationError ==
    backupToken = <<>> \/ loadRepositoriesFromFile(repoFile).err

C25_OnlyConfigurationErrorSkipsLoop ==
    (pc = "exited" /\ ~ConfigurationError) =>
        \A i \in 1..Len(repositories) :
            Fault("mkdir", repositories[i].Name) \notin faultLog =>
                \E j \in 1..Len(summary.Results) :
                    summary.Results[j].Name = repositories[i].Name

\* removeCredentialsFromConfig has nothing left to remove from the config c
Sanitized(c) ==
    c = removeCredentialsFromConfig(c, backupToken)

C27_RetentionIgnoresOtherEntries ==
    \A n \in DOMAIN pruned :
        /\ \A e \in DOMAIN pruned[n].others :
              e \in DOMAIN fs[n] /\ fs[n][e] = pruned[n].others[e]
        /\ pruned[n].removed \subseteq pruned[n].before
        /\ Cardinality(pruned[n].before) - Cardinality(pruned[n].removed)
              >= Min(Cardinality(pruned[n].before), maxBackups)

C27_Witness ==
    /\ pc = "exited"
    /\ \E n \in DOMAIN pruned :
          /\ DOMAIN pruned[n].others = DOMAIN OtherEntries
          /\ Cardinality(pruned[n].removed) = 2
          /\ Cardinality(DatedDirs(fs[n])) = maxBackups
          /\ DOMAIN OtherEntries \subseteq DOMAIN fs[n]

\* retention met no error for the repository n in this run
RetentionClean(n) ==
    \A f \in faultLog :
        f[1] = runs =>
            /\ f # Fault("readdir", n)
            /\ f[2] = "rmold" => f[3][1] # n

\* C28: an error enumerating or deleting the backup directories of one
\* repository during retention does not block the retention of the others:
\* when retention is over, every repository of the list for which it met
\* no error has at most the maximum number of dated directories.
C28_RetentionErrorsIsolated ==
    (pc \in {"summary", "final"} \/ (pc = "exited" /\ exitCode = 0)) =>
        \A i \in 1..Len(repositories) :
            RetentionClean(repositories[i].Name) =>
                Cardinality(DatedDirs(fs[repositories[i].Name])) <= maxBackups

C28_Witness ==
    /\ pc = "exited"
    /\ exitCode = 0
    /\ Len(repositories) = 2
    /\ Fault("readdir", repositories[1].Name) \in faultLog
    /\ Cardinality(DatedDirs(fs[repositories[1].Name])) > maxBackups
    /\ repositories[2].Name \in DOMAIN pruned
    /\ pruned[repositories[2].Name].removed # {}
    /\ Cardinality(DatedDirs(fs[repositories[2].Name])) = maxBackups

\* an outcome is failed exactly when it carries an error text
Consistent(r) ==
    ~r.Success <=> r.Error # ""

\* C29: every outcome is failed exactly when it carries a non-empty error:
\* a repository that has failed, in its clone or in its archive, is
\* recorded as failed with the error text, and a successful outcome
\* carries no error.
C29_FailedIffErrorText ==
    /\ \A i \in 1..Len(summary.Results) : Consistent(summary.Results[i])
    /\ pc = "record" =>
          /\ Consistent(result)
          /\ ~result.Success => result.Error = lastError
          /\ Fault("zip", CurName) \in faultLog =>
                (~result.Success /\ result.Error # "")

\* the steps of backupRepository on the repository idx, and the phase of
\* performBackups
InBackup ==
    pc \in {"clone", "sanitize", "size", "zip", "record"}

InPerform ==
    pc = "perform" \/ InBackup

\* C30: within a run each repository leaves Pending at most once and
\* reaches exactly one terminal state that it never leaves: the outcomes
\* recorded are those of the repositories before the current one, in the
\* order of the list, one each; an outcome once recorded is never changed;
\* the repository being cloned has no outcome yet; and a further attempt is
\* made only from the clone step to the clone step.
C30_OneTerminalStatePerRepository ==
    /\ [](/\ InPerform => Len(summary.Results) = idx - 1
          /\ (pc \in {"retention", "summary", "final"}
                 \/ (pc = "exited" /\ exitCode = 0))
                => Len(summary.Results) = Len(repositories)
          /\ Len(summary.Results) <= Len(repositories)
          /\ \A i \in 1..Len(summary.Results) :
                summary.Results[i].Name = repositories[i].Name
          /\ InBackup => result.Name = repositories[idx].Name)
    /\ [][/\ \A i \in 1..Len(summary.Results) :
               /\ i <= Len(summary'.Results)
               /\ summary'.Results[i] = summary.Results[i]
          /\ (InPerform /\ InPerform') => idx' >= idx
          /\ (attempt >= 1 /\ attempt' > attempt)
               => (pc = "clone" /\ pc' = "clone" /\ idx' = idx)]_vars

C30_Witness ==
    /\ pc = "exited"
    /\ exitCode = 0
    /\ Len(summary.Results) = 2
    /\ ~summary.Results[1].Success
    /\ summary.Results[2].Success
    /\ summary.Results[1].Name # summary.Results[2].Name

\* nothing has been cloned or archived in this run for the repository at
\* position j of the list
NotStarted(j) ==
    LET d == fs[repositories[j].Name][DateName(date)]
    IN d.mirror = "none" /\ d.zip = "none"

\* C31: the repositories are processed one at a time in the order loaded:
\* while the backups run, the repositories before the current one have
\* their outcome, the current one is the only one started without an
\* outcome, nothing has been cloned or archived for the ones after it, and
\* the i-th outcome of the report is that of the i-th descriptor.
C31_OneAtATimeInOrder ==
    /\ InPerform =>
          \A j \in 1..Len(repositories) :
              /\ j < idx =>
                    /\ j <= Len(summary.Results)
                    /\ summary.Results[j].Name = repositories[j].Name
              /\ j >= idx => j > Len(summary.Results)
              /\ (j > idx \/ (j = idx /\ pc = "perform")) => NotStarted(j)
    /\ (pc = "exited" /\ exitCode = 0) =>
          /\ Len(summary.Results) = Len(repositories)
          /\ \A i \in 1..Len(repositories) :
                summary.Results[i].Name = repositories[i].Name

C31_Witness ==
    /\ pc = "zip"
    /\ idx = 2
    /\ Len(repositories) = 2
    /\ CurDir.mirror = "full"
    /\ Len(summary.Results) = 1
    /\ summary.Results[1].Name = repositories[1].Name
    /\ summary.Results[1].Name # repositories[2].Name

\* the outcomes of the repositories the run has processed
Processed ==
    IF results # <<>> THEN results ELSE summary.Results

\* one repository or more was processed and none has failed
AllProcessedOK ==
    Len(Processed) >= 1 /\ \A i \in 1..Len(Processed) : Processed[i].Success

\* C32: the overall status of a notification is success exactly when one
\* repository or more was processed and none failed, "panic" (the crashed
\* status) exactly when a panic was caught, and failure otherwise: when a
\* repository has failed or the run failed before processing any.
C32_NotificationStatus ==
    \A i \in 1..Len(notified) :
        /\ notified[i] \in {"success", "Success", "failure", "Failure", "panic"}
        /\ notified[i] = "panic" <=> panicked
        /\ notified[i] \in {"success", "Success"} <=> (~panicked /\ AllProcessedOK)
        /\ notified[i] \in {"failure", "Failure"} <=> (~panicked /\ ~AllProcessedOK)

\* every step of a run returns: a clone attempt ends at the latest with the
\* 10 minutes of its context (line 507) and a webhook post with the 30
\* seconds of its client (line 97), so a run that has not exited always
\* takes its next step. This is WF_vars(Next) for a program whose only
\* states without a next step are the exited ones, written without ENABLED.
Scheduling ==
    []<>(pc = "exited") \/ []<><<Next>>_vars

SpecLive ==
    Spec /\ Scheduling

ArchiveOnDisk(name) ==
    /\ DateName(date) \in DOMAIN fs[name]
    /\ fs[name][DateName(date)].dir
    /\ fs[name][DateName(date)].zip = "ok"

\* C34: at the end of a run every outcome recorded as succeeded has its
\* archive on disk at backups/<name>/<date>/<name>.git.zip.
C34_SucceededHasArchive ==
    pc = "exited" =>
        \A i \in 1..Len(summary.Results) :
            summary.Results[i].Success => ArchiveOnDisk(summary.Results[i].Name)

\* the summary file of the run's date is the one an earlier run has written
\* and lists the repository as succeeded with the size of its archive
EarlierRunArchived(name) ==
    LET dn == DateName(date)
    IN /\ dn \in DOMAIN summaryFiles
       /\ summaryFiles[dn].json # NoFile
       /\ \E j \in DOMAIN summaryFiles[dn].json.results :
            LET r == summaryFiles[dn].json.results[j]
            IN r.name = name /\ r.success /\ r.zip_size # ""

\* C36: when the program is run again on the same date and the clone of a
\* repository fails on all attempts in the second run, the archive the first
\* run of that date has made for the repository is still on disk once the
\* second run has finished its backups.
C36_RerunFailureKeepsArchive ==
    (sameDate /\ runs > 1 /\ pc \in {"summary", "final", "exited"}) =>
        \A i \in 1..Len(summary.Results) :
            LET r == summary.Results[i]
            IN (~r.Success /\ r.Error = CloneErrors[maxRetries]
                    /\ EarlierRunArchived(r.Name))
                  => ArchiveOnDisk(r.Name)

\* a dated directory of the repository holds a complete archive
HasArchive(name) ==
    \E e \in DatedDirs(fs[name]) : fs[name][e].zip = "ok"

\* C35: across runs on successive dates a repository that has an archive
\* keeps one: no step of a run whose date is new, a run whose clone fails
\* included, leaves the repository without a dated directory that holds an
\* archive; retention does not evict the last archive in favour of dated
\* directories that hold none.
C35_LastArchiveKept ==
    [][\A n \in Names : (~sameDate /\ HasArchive(n)) => HasArchive(n)']_vars

====
